---- MODULE Spec2Model ----
(***************************************************************************)
(* Command intent resolution of the offline voice assistant.               *)
(*                                                                         *)
(* Two resolvers live in the repository and both are modelled:             *)
(*   - app/assistant_commands.py: the classifier-based resolver            *)
(*     (extract_command_payload calls the Ollama chat endpoint);           *)
(*   - voice_to_ollama.py: the rule-based resolver (prefix grammar,        *)
(*     no external call).                                                  *)
(* Python strings are TLA+ strings; Python dicts and lists read from JSON  *)
(* are tagged values, so that every isinstance test of the code is a test  *)
(* of the tag.                                                             *)
(***************************************************************************)
EXTENDS Integers, Sequences, FiniteSets, TLC

VARIABLES
    mode,            \* which entry point the run exercises
    pc,              \* position of the running operation
    impl,            \* resolver in use: "app" | "legacy" | "none"
    config_file,     \* what json/commands.json holds
    command_config,  \* the configuration load_command_config returned
    user_text,       \* the utterance being resolved
    devices,         \* the registry _load_devices returned
    use_json_format, \* loop variable of extract_command_intent_nlp
    raw_command,     \* command awaiting _canonicalize_command_nlp
    raw_target,      \* target of the reply being validated
    calls,           \* external chat calls made for this utterance
    replies,         \* what each of those calls returned or raised
    intent,          \* what extract_command_intent_nlp returned
    result,          \* what extract_command_payload returned or raised
    phrase,          \* input of the pure function under check
    outputs,         \* successive outputs of the pure function under check
    parts,           \* the parts the utterance under extraction is made of
    rule_text,       \* lowered, the text the rule-based extractor works on
    changed,         \* flag of its trailing-filler loop
    history,         \* the conversation history chat_turn works on
    history_file,    \* what save_history last wrote
    chat_calls,      \* calls of the general chat backend in this turn
    chat_replies,    \* what each of those calls returned or raised
    emitted,         \* what the turn printed
    said,            \* the non-system messages of the conversation since the
                     \* interactive loop last cleared it
    typed            \* how many commands the interactive loop has read

configVars == <<config_file, command_config>>
resolveVars == <<user_text, use_json_format, raw_command, raw_target, calls, replies,
                 intent, result>>
pureVars == <<phrase, outputs>>
ruleVars == <<parts, rule_text, changed>>
turnVars == <<history, history_file, chat_calls, chat_replies, emitted, said, typed>>

vars == <<mode, pc, impl, configVars, devices, resolveVars, pureVars, ruleVars, turnVars>>

-----------------------------------------------------------------------------
(* Bounds of the model.                                                     *)

\* tokens concatenated to make an input phrase of the normalizer
MaxTokens == 3
\* entries of a configured devices list
MaxDevices == 2
\* trailing fillers stacked at the end of an utterance
MaxFillers == 2
\* commands read by the interactive loop in one run
MaxCommands == 3

-----------------------------------------------------------------------------
(* Python str operations.                                                   *)

\* the characters of the model in code point order
Alphabet == "\t\n\f\r !\",.0123456789:?ABCDEFGHIJKLMNOPQRSTUVWXYZ[]_abcdefghijklmnopqrstuvwxyz{}"
UpperChars == "ABCDEFGHIJKLMNOPQRSTUVWXYZ"
LowerChars == "abcdefghijklmnopqrstuvwxyz"

CharAt(s, i) == SubSeq(s, i, i)

IndexIn(c, chars) ==
    IF \E i \in 1..Len(chars) : CharAt(chars, i) = c
    THEN CHOOSE i \in 1..Len(chars) : CharAt(chars, i) = c
    ELSE 0

Ord(c) == IndexIn(c, Alphabet)

\* str.startswith / str.endswith
StartsWith(s, p) == Len(p) <= Len(s) /\ SubSeq(s, 1, Len(p)) = p
EndsWith(s, p) == Len(p) <= Len(s) /\ SubSeq(s, Len(s) - Len(p) + 1, Len(s)) = p

\* s[n:]
DropFirst(s, n) == SubSeq(s, n + 1, Len(s))
\* s[:-n]; -0 is 0, so that s[:-0] is the empty string
DropLast(s, n) == IF n = 0 THEN "" ELSE SubSeq(s, 1, Len(s) - n)

\* a in s
Contains(a, s) ==
    \E i \in 0..(Len(s) - Len(a)) : SubSeq(s, i + 1, i + Len(a)) = a

RECURSIVE LStrip(_, _)
LStrip(s, chars) ==
    IF s # "" /\ IndexIn(CharAt(s, 1), chars) # 0
    THEN LStrip(DropFirst(s, 1), chars)
    ELSE s

RECURSIVE RStrip(_, _)
RStrip(s, chars) ==
    IF s # "" /\ IndexIn(CharAt(s, Len(s)), chars) # 0
    THEN RStrip(DropLast(s, 1), chars)
    ELSE s

\* str.strip(chars)
StripChars(s, chars) == RStrip(LStrip(s, chars), chars)

\* the whitespace str.split() and str.strip() remove
Whitespace == " \t\n\r\f"
\* str.strip()
Strip(s) == StripChars(s, Whitespace)

LowerChar(c) ==
    IF IndexIn(c, UpperChars) # 0 THEN CharAt(LowerChars, IndexIn(c, UpperChars)) ELSE c

\* str.lower()
RECURSIVE Lower(_)
Lower(s) == IF s = "" THEN "" ELSE LowerChar(CharAt(s, 1)) \o Lower(DropFirst(s, 1))

\* " ".join(s.split()): whitespace runs become one space, none at the ends
RECURSIVE CollapseFrom(_)
CollapseFrom(s) ==
    IF s = "" THEN ""
    ELSE IF IndexIn(CharAt(s, 1), Whitespace) # 0
         THEN LET rest == LStrip(s, Whitespace)
              IN  IF rest = "" THEN "" ELSE " " \o CollapseFrom(rest)
         ELSE CharAt(s, 1) \o CollapseFrom(DropFirst(s, 1))

JoinSplit(s) == CollapseFrom(LStrip(s, Whitespace))

\* a < b on str, by code point
RECURSIVE StrLess(_, _)
StrLess(a, b) ==
    IF b = "" THEN FALSE
    ELSE IF a = "" THEN TRUE
    ELSE IF CharAt(a, 1) = CharAt(b, 1) THEN StrLess(DropFirst(a, 1), DropFirst(b, 1))
    ELSE Ord(CharAt(a, 1)) < Ord(CharAt(b, 1))

\* sorted(S) for a set of str
RECURSIVE Sorted(_)
Sorted(S) ==
    IF S = {} THEN << >>
    ELSE LET m == CHOOSE x \in S : \A y \in S \ {x} : StrLess(x, y)
         IN  <<m>> \o Sorted(S \ {m})

Range(f) == {f[i] : i \in DOMAIN f}

-----------------------------------------------------------------------------
(* Values read from JSON: the tag is what isinstance tests.                 *)

Str(s) == [t |-> "str", s |-> s]
Null == [t |-> "null"]
Bool(b) == [t |-> "bool", b |-> b]
Num(n) == [t |-> "num", n |-> n]
List(items) == [t |-> "list", items |-> items]
Dict(fields) == [t |-> "dict", fields |-> fields]

IsStr(v) == v.t = "str"
IsList(v) == v.t = "list"
IsDict(v) == v.t = "dict"
IsBool(v) == v.t = "bool"

\* dict.get(key, default)
Get(d, key, default) == IF key \in DOMAIN d.fields THEN d.fields[key] ELSE default

\* Python's None as a resolver or matcher result
None == [kind |-> "none"]

-----------------------------------------------------------------------------
(* Target normalizer.                                                       *)

StripSet == " \t\n\r.,!?"
Articles == <<"the ", "a ", "an ">>

\* the for loop over the articles: the first that matches is removed, once
RECURSIVE StripArticle(_, _)
StripArticle(target, i) ==
    IF i > Len(Articles) THEN target
    ELSE IF StartsWith(target, Articles[i]) THEN DropFirst(target, Len(Articles[i]))
    ELSE StripArticle(target, i + 1)

_clean_target(raw) ==
    StripArticle(JoinSplit(Lower(StripChars(raw, StripSet))), 1)

-----------------------------------------------------------------------------
(* Built-in configuration.                                                  *)

CANONICAL_COMMANDS ==
    <<"turn_on", "turn_off", "open", "close", "lock", "unlock", "start", "stop">>

Device(id, name, aliases, commands) ==
    [id |-> id, name |-> name, aliases |-> aliases, supported_commands |-> commands]

\* DEFAULT_COMMAND_CONFIG["devices"], the same list in both resolvers
DefaultDevices ==
    << Device("front_door", "front door",
              <<"front door", "main door", "door">>,
              <<"open", "close", "lock", "unlock">>),
       Device("garage_door", "garage door",
              <<"garage door", "garage">>,
              <<"open", "close", "stop">>),
       Device("living_room_lights", "living room lights",
              <<"living room lights", "lights", "living lights">>,
              <<"turn_on", "turn_off">>),
       Device("robot_vacuum", "robot vacuum",
              <<"robot vacuum", "vacuum", "cleaner">>,
              <<"start", "stop">>),
       Device("coffee_machine", "coffee machine",
              <<"coffee machine", "coffee maker", "espresso machine">>,
              <<"turn_on", "turn_off", "start", "stop">>) >>

\* a list of str as it stands in a configuration
StrList(seq) == List([i \in 1..Len(seq) |-> Str(seq[i])])

\* a device as it stands in a configuration
RawDevice(d) ==
    Dict([id |-> Str(d.id), name |-> Str(d.name), aliases |-> StrList(d.aliases),
          supported_commands |-> StrList(d.supported_commands)])

RawDefaultDevices == List([i \in 1..Len(DefaultDevices) |-> RawDevice(DefaultDevices[i])])

\* DEFAULT_COMMAND_CONFIG of the rule-based resolver: its phrase lists and rules
DefaultLeadingPhrases == <<"please ", "can you ", "could you ", "would you ">>
DefaultTrailingFillers == <<" now", " please", " for me">>

Rule(prefix, name) == [prefix |-> prefix, name |-> name]

DefaultCommands ==
    << Rule("turn on ", "turn_on"), Rule("turn off ", "turn_off"),
       Rule("switch on ", "turn_on"), Rule("switch off ", "turn_off"),
       Rule("open ", "open"), Rule("close ", "close"), Rule("lock ", "lock"),
       Rule("unlock ", "unlock"), Rule("start ", "start"), Rule("stop ", "stop") >>

RawRule(r) == Dict([prefix |-> Str(r.prefix), name |-> Str(r.name)])

RawDefaultCommands == List([i \in 1..Len(DefaultCommands) |-> RawRule(DefaultCommands[i])])

\* DEFAULT_COMMAND_CONFIG of each resolver
DEFAULT_COMMAND_CONFIG(resolver) ==
    IF resolver = "legacy"
    THEN Dict([leading_phrases |-> StrList(DefaultLeadingPhrases),
               trailing_fillers |-> StrList(DefaultTrailingFillers),
               commands |-> RawDefaultCommands,
               devices |-> RawDefaultDevices])
    ELSE Dict([devices |-> RawDefaultDevices])

\* the file read and parsed: any failure, and any JSON that is no object,
\* gives the built-in configuration
load_command_config(resolver, file) ==
    IF file.kind = "json" /\ IsDict(file.value) THEN file.value
    ELSE DEFAULT_COMMAND_CONFIG(resolver)

-----------------------------------------------------------------------------
(* Device registry loader.                                                  *)

\* the aliases loop: str entries, normalized, the empty ones dropped
NormalizedAliases(device_name, aliases) ==
    {_clean_target(device_name)}
        \cup ({_clean_target(a.s) : a \in {x \in Range(aliases) : IsStr(x)}} \ {""})

\* the supported_commands loop, as the set the code sorts
SupportedCommands(commands) ==
    {Lower(Strip(c.s)) : c \in {x \in Range(commands) : IsStr(x) /\ Strip(x.s) # ""}}

\* one pass of the loop body over an entry: the device appended, or a skip
ValidateDevice(item) ==
    IF ~IsDict(item) THEN None
    ELSE LET device_id == Get(item, "id", Null)
             device_name == Get(item, "name", Null)
             aliases0 == Get(item, "aliases", List(<< >>))
             commands0 == Get(item, "supported_commands", List(<< >>))
             aliases == IF IsList(aliases0) THEN aliases0.items ELSE << >>
             commands == IF IsList(commands0) THEN commands0.items ELSE << >>
         IN  IF ~IsStr(device_id) \/ Strip(device_id.s) = "" THEN None
             ELSE IF ~IsStr(device_name) \/ Strip(device_name.s) = "" THEN None
             ELSE IF SupportedCommands(commands) = {} THEN None
             ELSE [kind |-> "device",
                   device |-> Device(Strip(device_id.s),
                                     JoinSplit(Strip(device_name.s)),
                                     Sorted(NormalizedAliases(device_name.s, aliases)),
                                     Sorted(SupportedCommands(commands)))]

\* the for loop over raw_devices from entry i on
RECURSIVE ValidatedFrom(_, _)
ValidatedFrom(items, i) ==
    IF i > Len(items) THEN << >>
    ELSE LET v == ValidateDevice(items[i])
         IN  (IF v = None THEN << >> ELSE <<v.device>>) \o ValidatedFrom(items, i + 1)

\* the loader without its final fallback
OrFallbackDropped(loaded, fallback) == loaded

\* devices or fallback
OrFallback(loaded, fallback) == IF loaded = << >> THEN fallback ELSE loaded

_load_devices(config) ==
    LET fallback == DefaultDevices
        raw_devices == Get(config, "devices", RawDefaultDevices)
    IN  IF ~IsList(raw_devices) THEN fallback
        ELSE OrFallback(ValidatedFrom(raw_devices.items, 1), fallback)

-----------------------------------------------------------------------------
(* Device matcher.                                                          *)

\* best_score = -1; as the score of an alias it stands for the loop's
\* continue, which leaves best_score (never below -1) as it is
NoScore == -1

\* the scores with the exact tier no higher than the lowest one
AliasScoreExactLow(normalized_target, alias) ==
    IF normalized_target = alias THEN 10 + Len(alias)
    ELSE IF Contains(alias, normalized_target) THEN 50 + Len(alias)
    ELSE IF Contains(normalized_target, alias) THEN 10 + Len(normalized_target)
    ELSE NoScore

AliasScore(normalized_target, alias) ==
    IF normalized_target = alias THEN 100 + Len(alias)
    ELSE IF Contains(alias, normalized_target) THEN 50 + Len(alias)
    ELSE IF Contains(normalized_target, alias) THEN 10 + Len(normalized_target)
    ELSE NoScore

\* the comparison with >= in place of >
BetterOrEqual(score, best, device) ==
    IF score >= best.score /\ score # NoScore
    THEN [score |-> score, device |-> device] ELSE best

\* if score > best_score: best_score, best_device = score, device
Better(score, best, device) ==
    IF score > best.score THEN [score |-> score, device |-> device] ELSE best

RECURSIVE ScanAliases(_, _, _, _)
ScanAliases(normalized_target, device, j, best) ==
    IF j > Len(device.aliases) THEN best
    ELSE ScanAliases(normalized_target, device, j + 1,
                     Better(AliasScore(normalized_target, device.aliases[j]), best,
                            [kind |-> "device", device |-> device]))

RECURSIVE ScanDevices(_, _, _, _)
ScanDevices(normalized_target, registry, i, best) ==
    IF i > Len(registry) THEN best
    ELSE ScanDevices(normalized_target, registry, i + 1,
                     ScanAliases(normalized_target, registry[i], 1, best))

\* the matcher without its test of the empty phrase
FindDeviceUnguarded(target, registry) ==
    ScanDevices(_clean_target(target), registry, 1,
                [score |-> NoScore, device |-> None]).device

_find_device(target, registry) ==
    LET normalized_target == _clean_target(target)
    IN  IF normalized_target = "" THEN None
        ELSE ScanDevices(normalized_target, registry, 1,
                         [score |-> NoScore, device |-> None]).device

-----------------------------------------------------------------------------
(* Results of a resolver.                                                   *)

Payload(device, command) == [kind |-> "payload", device |-> device, command |-> command]

\* an exception that leaves extract_command_payload
Raised(exc) == [kind |-> "raise", exc |-> exc]

-----------------------------------------------------------------------------
(* Rule-based resolver (voice_to_ollama.py).                                *)

\* values.lower() for the str entries that are not blank
RECURSIVE CleanedPhrases(_, _)
CleanedPhrases(values, i) ==
    IF i > Len(values) THEN << >>
    ELSE (IF IsStr(values[i]) /\ Strip(values[i].s) # ""
          THEN <<Lower(values[i].s)>> ELSE << >>) \o CleanedPhrases(values, i + 1)

\* values.lower() for the str entries, blank ones included
RECURSIVE LoweredPhrases(_, _)
LoweredPhrases(values, i) ==
    IF i > Len(values) THEN << >>
    ELSE (IF IsStr(values[i]) THEN <<Lower(values[i].s)>> ELSE << >>)
            \o LoweredPhrases(values, i + 1)

\* the phrase list without the test that drops blank entries
LoadPhraseListKeepBlank(config, key, fallback) ==
    LET values == Get(config, key, StrList(fallback))
    IN  IF ~IsList(values) THEN fallback
        ELSE LET cleaned == LoweredPhrases(values.items, 1)
             IN  IF cleaned = << >> THEN fallback ELSE cleaned

_load_phrase_list(config, key, fallback) ==
    LET values == Get(config, key, StrList(fallback))
    IN  IF ~IsList(values) THEN fallback
        ELSE LET cleaned == CleanedPhrases(values.items, 1)
             IN  IF cleaned = << >> THEN fallback ELSE cleaned

ValidPattern(item) ==
    /\ IsDict(item)
    /\ IsStr(Get(item, "prefix", Null))
    /\ IsStr(Get(item, "name", Null))
    /\ Strip(Get(item, "prefix", Null).s) # ""
    /\ Strip(Get(item, "name", Null).s) # ""

RECURSIVE ValidPatterns(_, _)
ValidPatterns(patterns, i) ==
    IF i > Len(patterns) THEN << >>
    ELSE (IF ValidPattern(patterns[i])
          THEN <<Rule(Lower(patterns[i].fields.prefix.s),
                      Lower(Strip(patterns[i].fields.name.s)))>>
          ELSE << >>) \o ValidPatterns(patterns, i + 1)

_load_patterns(config) ==
    LET patterns == Get(config, "commands", RawDefaultCommands)
    IN  IF ~IsList(patterns) THEN DefaultCommands
        ELSE LET valid_patterns == ValidPatterns(patterns.items, 1)
             IN  IF valid_patterns = << >> THEN DefaultCommands ELSE valid_patterns

\* the loop over leading_phrases: the first that matches is removed, once
RECURSIVE StripLeading(_, _, _)
StripLeading(lowered, leading_phrases, i) ==
    IF i > Len(leading_phrases) THEN lowered
    ELSE IF StartsWith(lowered, leading_phrases[i])
         THEN Strip(DropFirst(lowered, Len(leading_phrases[i])))
         ELSE StripLeading(lowered, leading_phrases, i + 1)

\* one pass of the for loop over trailing_fillers
RECURSIVE FillerPass(_, _, _)
FillerPass(lowered, trailing_fillers, i) ==
    IF i > Len(trailing_fillers) THEN lowered
    ELSE FillerPass(IF EndsWith(lowered, trailing_fillers[i])
                    THEN Strip(DropLast(lowered, Len(trailing_fillers[i])))
                    ELSE lowered,
                    trailing_fillers, i + 1)

\* the same pass with the flag it sets: changed = True at every removal
RECURSIVE FillerPassFlag(_, _, _, _)
FillerPassFlag(lowered, flag, trailing_fillers, i) ==
    IF i > Len(trailing_fillers) THEN [lowered |-> lowered, changed |-> flag]
    ELSE IF EndsWith(lowered, trailing_fillers[i])
         THEN FillerPassFlag(Strip(DropLast(lowered, Len(trailing_fillers[i]))), TRUE,
                             trailing_fillers, i + 1)
         ELSE FillerPassFlag(lowered, flag, trailing_fillers, i + 1)

\* while changed: a pass that removed a filler is followed by another
RECURSIVE StripTrailing(_, _)
StripTrailing(lowered, trailing_fillers) ==
    LET after == FillerPass(lowered, trailing_fillers, 1)
    IN  IF after = lowered THEN lowered ELSE StripTrailing(after, trailing_fillers)

Detected(command, target) == [kind |-> "detected", command |-> command, target |-> target]

\* the loop over the rules with the remainder taken as the target, uncleaned
RECURSIVE MatchRulesRawTarget(_, _, _)
MatchRulesRawTarget(lowered, rules, i) ==
    IF i > Len(rules) THEN None
    ELSE LET target == StripChars(DropFirst(lowered, Len(rules[i].prefix)), StripSet)
         IN  IF StartsWith(lowered, rules[i].prefix) /\ target # ""
             THEN Detected(rules[i].name, target)
             ELSE MatchRulesRawTarget(lowered, rules, i + 1)

\* the loop over the rules: the first prefix whose remainder cleans to a
\* non-empty target
RECURSIVE MatchRules(_, _, _)
MatchRules(lowered, rules, i) ==
    IF i > Len(rules) THEN None
    ELSE LET target == _clean_target(StripChars(DropFirst(lowered, Len(rules[i].prefix)),
                                                StripSet))
         IN  IF StartsWith(lowered, rules[i].prefix) /\ target # ""
             THEN Detected(rules[i].name, target)
             ELSE MatchRules(lowered, rules, i + 1)

\* "<verb> <target> off" and "<verb> <target> on"
VerbLast(lowered, verb) ==
    IF ~StartsWith(lowered, verb) THEN None
    ELSE IF EndsWith(lowered, " off")
         THEN LET target == _clean_target(StripChars(
                               SubSeq(lowered, Len(verb) + 1, Len(lowered) - Len(" off")),
                               StripSet))
              IN  IF target # "" THEN Detected("turn_off", target) ELSE None
    ELSE IF EndsWith(lowered, " on")
         THEN LET target == _clean_target(StripChars(
                               SubSeq(lowered, Len(verb) + 1, Len(lowered) - Len(" on")),
                               StripSet))
              IN  IF target # "" THEN Detected("turn_on", target) ELSE None
    ELSE None

\* the text the rules are tried on: lower-cased, trimmed, fillers removed
RuleText(text, config) ==
    StripTrailing(
        StripLeading(StripChars(Lower(Strip(text)), StripSet),
                     _load_phrase_list(config, "leading_phrases", DefaultLeadingPhrases), 1),
        _load_phrase_list(config, "trailing_fillers", DefaultTrailingFillers))

\* the command and target the rules detect, or None
RuleExtract(text, config) ==
    IF Strip(text) = "" THEN None
    ELSE LET lowered == RuleText(text, config)
         IN  IF lowered = "" THEN None
             ELSE LET byPrefix == MatchRules(lowered, _load_patterns(config), 1)
                      byTurn == IF byPrefix = None THEN VerbLast(lowered, "turn ")
                                ELSE byPrefix
                  IN  IF byTurn = None THEN VerbLast(lowered, "switch ") ELSE byTurn

\* the command and target detected in the text the loops leave, or None
DetectFrom(lowered, config) ==
    IF lowered = "" THEN None
    ELSE LET byPrefix == MatchRules(lowered, _load_patterns(config), 1)
             byTurn == IF byPrefix = None THEN VerbLast(lowered, "turn ") ELSE byPrefix
         IN  IF byTurn = None THEN VerbLast(lowered, "switch ") ELSE byTurn

\* the device named in the payload: the matched device, or the target
LegacyDeviceName(detected, registry) ==
    LET matched_device == _find_device(detected.target, registry)
    IN  IF matched_device # None THEN matched_device.device.name ELSE detected.target

\* extract_command_payload of voice_to_ollama.py
LegacyExtractCommandPayload(text, config) ==
    LET detected == RuleExtract(text, config)
    IN  IF detected = None THEN None
        ELSE Payload(LegacyDeviceName(detected, _load_devices(config)), detected.command)

-----------------------------------------------------------------------------
(* JSON texts of the model.  json.loads is modelled on these texts only: a  *)
(* text of JsonDocs parses to its value, every other text of the model is   *)
(* not JSON (each is prose, or a JSON text with text around it).            *)

TextTurnOnCoffee ==
    "{\"is_command\": true, \"command\": \"turn_on\", \"target\": \"coffee machine\"}"
TextLockCoffee ==
    "{\"is_command\": true, \"command\": \"lock\", \"target\": \"the coffee machine\"}"
TextTurnOnKitchen ==
    "{\"is_command\": true, \"command\": \"turn_on\", \"target\": \"kitchen\"}"
TextOpenThermostat ==
    "{\"is_command\": true, \"command\": \" OPEN \", \"target\": \" Thermostat. \"}"
TextPowerUp ==
    "{\"is_command\": true, \"command\": \"Power Up\", \"target\": null}"
TextNotCommand ==
    "{\"is_command\": false, \"command\": \"turn_on\", \"target\": \"lights\"}"
TextNonBool ==
    "{\"is_command\": \"yes\", \"command\": \"turn_on\", \"target\": \"lights\"}"
TextNullCommand ==
    "{\"is_command\": true, \"command\": null, \"target\": \"lights\"}"
TextList == "[1]"
TextCanonTurnOn == "{\"command\": \" Turn_On\"}"
TextCanonNull == "{\"command\": null}"
TextCanonDim == "{\"command\": \"dim\"}"

Intent3(is_command, command, target) ==
    Dict([is_command |-> is_command, command |-> command, target |-> target])

JsonDocs ==
    { [text |-> TextTurnOnCoffee,
       value |-> Intent3(Bool(TRUE), Str("turn_on"), Str("coffee machine"))],
      [text |-> TextLockCoffee,
       value |-> Intent3(Bool(TRUE), Str("lock"), Str("the coffee machine"))],
      [text |-> TextTurnOnKitchen,
       value |-> Intent3(Bool(TRUE), Str("turn_on"), Str("kitchen"))],
      [text |-> TextOpenThermostat,
       value |-> Intent3(Bool(TRUE), Str(" OPEN "), Str(" Thermostat. "))],
      [text |-> TextPowerUp, value |-> Intent3(Bool(TRUE), Str("Power Up"), Null)],
      [text |-> TextNotCommand,
       value |-> Intent3(Bool(FALSE), Str("turn_on"), Str("lights"))],
      [text |-> TextNonBool,
       value |-> Intent3(Str("yes"), Str("turn_on"), Str("lights"))],
      [text |-> TextNullCommand, value |-> Intent3(Bool(TRUE), Null, Str("lights"))],
      [text |-> TextList, value |-> List(<<Num(1)>>)],
      [text |-> TextCanonTurnOn, value |-> Dict([command |-> Str(" Turn_On")])],
      [text |-> TextCanonNull, value |-> Dict([command |-> Null])],
      [text |-> TextCanonDim, value |-> Dict([command |-> Str("dim")])] }

\* json.loads(text): the value, or JSONDecodeError
JsonLoads(text) ==
    IF \E d \in JsonDocs : d.text = text
    THEN [ok |-> TRUE, value |-> (CHOOSE d \in JsonDocs : d.text = text).value]
    ELSE [ok |-> FALSE]

-----------------------------------------------------------------------------
(* JSON extraction from a reply.                                            *)

\* the places of character c in s
Places(s, c) == {i \in 1..Len(s) : CharAt(s, i) = c}

Min(S) == CHOOSE x \in S : \A y \in S : x <= y
Max(S) == CHOOSE x \in S : \A y \in S : x >= y

\* re.search(r"\{.*\}", content, re.DOTALL): from the first { to the last }
\* of the text, when that } follows that {
BraceMatch(content) ==
    LET opens == Places(content, "{")
        closes == Places(content, "}")
    IN  IF opens # {} /\ closes # {} /\ Max(closes) > Min(opens)
        THEN [found |-> TRUE, text |-> SubSeq(content, Min(opens), Max(closes))]
        ELSE [found |-> FALSE]

\* data if isinstance(data, dict) else None
DictOrNone(loaded) == IF IsDict(loaded.value) THEN loaded.value ELSE None

_extract_json_object(text) ==
    LET content == Strip(text)
    IN  IF content = "" THEN None
        ELSE IF JsonLoads(content).ok THEN DictOrNone(JsonLoads(content))
        ELSE LET match == BraceMatch(content)
             IN  IF ~match.found THEN None
                 ELSE IF JsonLoads(match.text).ok THEN DictOrNone(JsonLoads(match.text))
                 ELSE None

-----------------------------------------------------------------------------
(* Classifier-based resolver (app/assistant_commands.py).                   *)

\* what call_ollama_chat does: it raises, or it returns a body whose
\* message content is text
\*   URLError:        no connection, a timeout while connecting, an HTTP error
\*   TimeoutError:    a timeout while the response is awaited or read
\*   JSONDecodeError: a response body that is not JSON
Exceptions == {"URLError", "TimeoutError", "JSONDecodeError"}

Replied(text) == [kind |-> "content", text |-> text]

\* except urllib.error.URLError
Caught(exc) == exc = "URLError"

IntentNotCommand == [kind |-> "intent", is_command |-> FALSE]
IntentCommand(command, target) ==
    [kind |-> "intent", is_command |-> TRUE, command |-> command, target |-> target]

IsCanonical(command) == command \in Range(CANONICAL_COMMANDS)

\* target.strip() if isinstance(target, str) else ""
NormalizedTarget(target) == IF IsStr(target) THEN Strip(target.s) ELSE ""

\* _parse_command_intent up to the canonical test of the command: None, an
\* the validation with the test of command ahead of the test of is_command
ValidateCommandFirst(parsed) ==
    LET is_command == Get(parsed, "is_command", Null)
        command == Get(parsed, "command", Null)
        target == Get(parsed, "target", Null)
    IN  IF ~IsBool(is_command) THEN None
        ELSE IF ~IsStr(command) THEN (IF is_command.b THEN None ELSE IntentNotCommand)
        ELSE IF IsCanonical(Lower(Strip(command.s)))
             THEN IntentCommand(Lower(Strip(command.s)), NormalizedTarget(target))
        ELSE [kind |-> "canonicalize", command |-> Lower(Strip(command.s)),
              target |-> NormalizedTarget(target)]

\* intent, or a command to be canonicalized by the second call
Validate(parsed) ==
    LET is_command == Get(parsed, "is_command", Null)
        command == Get(parsed, "command", Null)
        target == Get(parsed, "target", Null)
    IN  IF ~IsBool(is_command) THEN None
        ELSE IF ~is_command.b THEN IntentNotCommand
        ELSE IF ~IsStr(command) THEN None
        ELSE IF IsCanonical(Lower(Strip(command.s)))
             THEN IntentCommand(Lower(Strip(command.s)), NormalizedTarget(target))
        ELSE [kind |-> "canonicalize", command |-> Lower(Strip(command.s)),
              target |-> NormalizedTarget(target)]

\* what _canonicalize_command_nlp returns for a reply: a canonical command or ""
\* (its None, which the caller turns into "")
Canonicalized(text) ==
    LET parsed == _extract_json_object(Strip(text))
    IN  IF parsed = None THEN ""
        ELSE LET command == Get(parsed, "command", Null)
             IN  IF ~IsStr(command) THEN ""
                 ELSE IF IsCanonical(Lower(Strip(command.s))) THEN Lower(Strip(command.s))
                 ELSE ""

\* the two matches tried in the other order
MatchedDeviceUtteranceFirst(text, target, registry) ==
    LET byText == _find_device(text, registry)
    IN  IF byText # None THEN byText
        ELSE IF target # "" THEN _find_device(target, registry) ELSE None

\* the device a command is resolved to: matched by the target, else by the
\* whole utterance
MatchedDevice(text, target, registry) ==
    LET byTarget == IF target # "" THEN _find_device(target, registry) ELSE None
    IN  IF byTarget = None THEN _find_device(text, registry) ELSE byTarget

\* the capability test inverted
UnsupportedInverted(command, device) == command \in Range(device.supported_commands)

\* command_name not in matched_device.get("supported_commands", [])
Unsupported(command, device) == command \notin Range(device.supported_commands)

\* extract_command_payload once the intent is known
PayloadFor(text, it, registry) ==
    IF it = None \/ ~it.is_command THEN None
    ELSE LET matched_device == MatchedDevice(text, it.target, registry)
             device_name == IF matched_device # None THEN matched_device.device.name
                            ELSE _clean_target(it.target)
         IN  IF matched_device # None /\ Unsupported(it.command, matched_device.device)
             THEN None
             ELSE IF device_name = "" THEN None
             ELSE Payload(device_name, it.command)

\* the classification call with the JSON flag stuck on
ClassifyCallAlwaysJson(format_json) ==
    [kind |-> "classify", format_json |-> TRUE, timeout |-> 60]

ClassifyCall(format_json) ==
    [kind |-> "classify", format_json |-> format_json, timeout |-> 60]
CanonicalizeCall == [kind |-> "canonicalize", format_json |-> TRUE, timeout |-> 30]

-----------------------------------------------------------------------------
(* Values of the variables an entry point does not use.                     *)

NoText == ""
NoFile == [kind |-> "none"]
NoConfig == Null
NoDevices == << >>
NoCalls == << >>

\* no utterance is being resolved
ResolverIdle ==
    /\ user_text = NoText
    /\ use_json_format = TRUE
    /\ raw_command = NoText
    /\ raw_target = NoText
    /\ calls = NoCalls
    /\ replies = NoCalls
    /\ intent = None
    /\ result = None

NoHistory == << >>

\* no utterance is under rule extraction
RuleIdle ==
    /\ parts = None
    /\ rule_text = NoText
    /\ changed = FALSE

\* no turn is under way
TurnIdle ==
    /\ history = NoHistory
    /\ history_file = NoHistory
    /\ chat_calls = NoCalls
    /\ chat_replies = NoCalls
    /\ emitted = << >>
    /\ said = NoHistory
    /\ typed = 0

-----------------------------------------------------------------------------
(* The normalizer applied to bounded phrases, and again to its own output.  *)

PhraseTokens == {"the ", "a ", "an ", ".", " ", "X", "lamp"}

RECURSIVE PhrasesOf(_)
PhrasesOf(n) ==
    IF n = 0 THEN {""}
    ELSE LET shorter == PhrasesOf(n - 1)
         IN  shorter \cup {p \o tok : p \in shorter, tok \in PhraseTokens}

Phrases == PhrasesOf(MaxTokens)

InitNormalizer ==
    /\ mode = "normalize"
    /\ pc = "start"
    /\ phrase \in Phrases
    /\ outputs = << >>
    /\ impl = "none"
    /\ config_file = NoFile
    /\ command_config = NoConfig
    /\ devices = NoDevices
    /\ ResolverIdle
    /\ RuleIdle
    /\ TurnIdle

Normalize ==
    /\ mode = "normalize"
    /\ pc = "start"
    /\ outputs' = <<_clean_target(phrase)>>
    /\ pc' = "normalized"
    /\ UNCHANGED <<mode, impl, ruleVars, turnVars, configVars, devices, resolveVars, phrase>>

Renormalize ==
    /\ mode = "normalize"
    /\ pc = "normalized"
    /\ outputs' = Append(outputs, _clean_target(outputs[1]))
    /\ pc' = "renormalized"
    /\ UNCHANGED <<mode, impl, ruleVars, turnVars, configVars, devices, resolveVars, phrase>>

NextNormalizer == Normalize \/ Renormalize

SpecNormalizer == InitNormalizer /\ [][NextNormalizer]_vars

\* C9: the target normalizer is idempotent: normalizing a normalized phrase
\* changes nothing, also after repeated articles or article-then-punctuation.
NormalizeIdempotent ==
    (mode = "normalize" /\ pc = "renormalized") => outputs[2] = outputs[1]

-----------------------------------------------------------------------------
(* The loader applied to bounded configurations, and the matcher applied to *)
(* the name of a loaded device.                                             *)

ItemLamp ==
    Dict([id |-> Str(" lamp "), name |-> Str("The  Lamp"),
          aliases |-> List(<<Str("Desk Lamp."), Num(7), Str("?")>>),
          supported_commands |-> StrList(<<" Turn_On ", "turn_off", "turn_on">>)])
ItemLampTwin ==
    Dict([id |-> Str("lamp"), name |-> Str("night lamp"),
          supported_commands |-> StrList(<<"turn_on">>)])
ItemFan ==
    Dict([id |-> Str("fan"), name |-> Str("fan"), aliases |-> Str("ventilator"),
          supported_commands |-> List(<<Str("start"), Num(2), Str("  ")>>)])
ItemDots ==
    Dict([id |-> Str("dots"), name |-> Str("..."),
          supported_commands |-> StrList(<<"open">>)])
ItemJunk == Str("junk")
ItemNoId == Dict([name |-> Str("heater"), supported_commands |-> StrList(<<"start">>)])
ItemBlankName ==
    Dict([id |-> Str("blank"), name |-> Str("  "),
          supported_commands |-> StrList(<<"start">>)])
ItemNoCommands ==
    Dict([id |-> Str("radio"), name |-> Str("radio"), aliases |-> StrList(<<"radio">>),
          supported_commands |-> StrList(<<" ">>)])

ItemPool ==
    {ItemLamp, ItemLampTwin, ItemFan, ItemDots, ItemJunk, ItemNoId, ItemBlankName,
     ItemNoCommands}

EmptyDict == Dict([k \in {} |-> Null])

\* json/commands.json: absent or unreadable, not JSON, JSON that is no
\* object, an object without devices, with devices of a wrong type, with the
\* built-in list, or with a list of at most MaxDevices entries of the pool
LoaderFiles ==
    {[kind |-> "missing"], [kind |-> "invalid"],
     [kind |-> "json", value |-> List(<<ItemLamp>>)],
     [kind |-> "json", value |-> EmptyDict],
     [kind |-> "json", value |-> Dict([devices |-> Str("oops")])],
     [kind |-> "json", value |-> Dict([devices |-> Null])],
     [kind |-> "json", value |-> Dict([devices |-> RawDefaultDevices])]}
        \cup {[kind |-> "json", value |-> Dict([devices |-> List(seq)])] :
                seq \in UNION {[1..n -> ItemPool] : n \in 0..MaxDevices}}

InitLoader ==
    /\ mode = "load"
    /\ pc = "start"
    /\ impl = "app"
    /\ config_file \in LoaderFiles
    /\ command_config = NoConfig
    /\ devices = NoDevices
    /\ phrase = NoText
    /\ outputs = << >>
    /\ ResolverIdle
    /\ RuleIdle
    /\ TurnIdle

LoadCommandConfig ==
    /\ mode = "load"
    /\ pc = "start"
    /\ command_config' = load_command_config(impl, config_file)
    /\ pc' = "configured"
    /\ UNCHANGED <<mode, impl, ruleVars, turnVars, config_file, devices, resolveVars, pureVars>>

LoadDevices ==
    /\ mode = "load"
    /\ pc = "configured"
    /\ devices' = _load_devices(command_config)
    /\ pc' = "loaded"
    /\ UNCHANGED <<mode, impl, ruleVars, turnVars, configVars, resolveVars, pureVars>>

\* _find_device(d["name"], devices) for the device d at index i; outputs
\* keeps i and what the matcher returned
MatchName ==
    /\ mode = "load"
    /\ pc = "loaded"
    /\ \E i \in 1..Len(devices) :
        /\ phrase' = devices[i].name
        /\ outputs' = <<i, _find_device(devices[i].name, devices)>>
    /\ pc' = "matched"
    /\ UNCHANGED <<mode, impl, ruleVars, turnVars, configVars, devices, resolveVars>>

NextLoader == LoadCommandConfig \/ LoadDevices \/ MatchName

SpecLoader == InitLoader /\ [][NextLoader]_vars

Loaded == mode = "load" /\ pc \in {"loaded", "matched"}

\* two devices with the same id, name, alias set and command set
SameDevice(a, b) ==
    /\ a.id = b.id
    /\ a.name = b.name
    /\ Range(a.aliases) = Range(b.aliases)
    /\ Range(a.supported_commands) = Range(b.supported_commands)

SameRegistry(r, q) ==
    Len(r) = Len(q) /\ \A i \in 1..Len(r) : SameDevice(r[i], q[i])

\* the entries of the configured list that pass validation
ValidIndexes(items) == {i \in 1..Len(items) : ValidateDevice(items[i]) # None}

\* what the file configures as devices, Null when it configures none
ConfiguredDevices ==
    IF config_file.kind = "json" /\ IsDict(config_file.value)
    THEN Get(config_file.value, "devices", Null)
    ELSE Null

\* the registry is the validated entries, all of them, in configured order
OnlyConfigured ==
    /\ IsList(ConfiguredDevices)
    /\ LET items == ConfiguredDevices.items
           valid == ValidIndexes(items)
       IN  /\ Len(devices) = Cardinality(valid)
           /\ \E at \in [1..Len(devices) -> valid] :
                /\ \A k \in 1..Len(devices) : devices[k] = ValidateDevice(items[at[k]]).device
                /\ \A k \in 1..(Len(devices) - 1) : at[k] < at[k + 1]

\* the cases in which the loader is to fall back
MustFallBack ==
    \/ ~IsList(ConfiguredDevices)
    \/ ValidIndexes(ConfiguredDevices.items) = {}

\* C7: the loader falls back whole-sale: its result is the 5 built-in devices
\* when devices is absent, no sequence or without a valid entry, and otherwise
\* the validated entries in configured order; never a mixture, never empty.
LoaderFallsBackWholesale ==
    Loaded =>
        /\ devices # << >>
        /\ MustFallBack => SameRegistry(devices, DefaultDevices)
        /\ ~MustFallBack => OnlyConfigured

\* C7 witnesses: a fallback because no entry passes, and a configured registry
WitnessFallbackNoValidEntry ==
    /\ Loaded
    /\ IsList(ConfiguredDevices)
    /\ Len(ConfiguredDevices.items) = 2
    /\ ValidIndexes(ConfiguredDevices.items) = {}
    /\ SameRegistry(devices, DefaultDevices)

\* C8: the device ids of a loaded registry are non-empty and pairwise distinct
DeviceIdsDistinct ==
    Loaded =>
        /\ \A i \in 1..Len(devices) : devices[i].id # ""
        /\ \A i, j \in 1..Len(devices) : i # j => devices[i].id # devices[j].id

\* the normalized name of the device at index i is an alias of no other device
NameUnique(i) ==
    \A j \in 1..Len(devices) :
        j # i => \A k \in 1..Len(devices[j].aliases) :
                    devices[j].aliases[k] # _clean_target(devices[i].name)

\* C10: matching the name of a device whose normalized name is an alias of no
\* other device returns that device.
MatchOwnName ==
    (mode = "load" /\ pc = "matched" /\ NameUnique(outputs[1]))
        => outputs[2] = [kind |-> "device", device |-> devices[outputs[1]]]

\* the same for the devices whose name does not normalize to the empty string
MatchOwnNonEmptyName ==
    (mode = "load" /\ pc = "matched" /\ NameUnique(outputs[1])
        /\ _clean_target(devices[outputs[1]].name) # "")
        => outputs[2] = [kind |-> "device", device |-> devices[outputs[1]]]

-----------------------------------------------------------------------------
(* The matcher applied to phrases and loaded registries.                    *)

ItemTv ==
    Dict([id |-> Str("tv"), name |-> Str("TV"), aliases |-> StrList(<<"telly">>),
          supported_commands |-> StrList(<<"turn_on", "turn_off">>)])
\* a device described at length
LongPhrase == "tv in the big living room on the second floor"
ItemSuite ==
    Dict([id |-> Str("suite"), name |-> Str("suite"),
          aliases |-> StrList(<<LongPhrase \o " of the house">>),
          supported_commands |-> StrList(<<"turn_on">>)])

MatcherPool == {ItemLamp, ItemLampTwin, ItemDots, ItemTv, ItemSuite}

\* json/commands.json: a list of at most MaxDevices pool entries
MatcherFiles ==
    {[kind |-> "json", value |-> Dict([devices |-> List(seq)])] :
        seq \in UNION {[1..n -> MatcherPool] : n \in 1..MaxDevices}}

MatchPhrases ==
    {"", "  ", "?!", "The Lamp.", "lam", "desk lamp", "night lamp", "night", "telly",
     "the " \o LongPhrase, "xyz", "turn on the tv please"}

InitMatcher ==
    /\ mode = "match"
    /\ pc = "start"
    /\ impl = "app"
    /\ config_file \in MatcherFiles
    /\ command_config = NoConfig
    /\ devices = NoDevices
    /\ phrase = NoText
    /\ outputs = << >>
    /\ ResolverIdle
    /\ RuleIdle
    /\ TurnIdle

\* command_config = load_command_config(); devices = _load_devices(command_config)
LoadRegistry ==
    /\ mode = "match"
    /\ pc = "start"
    /\ command_config' = load_command_config(impl, config_file)
    /\ devices' = _load_devices(command_config')
    /\ pc' = "loaded"
    /\ UNCHANGED <<mode, impl, ruleVars, turnVars, config_file, resolveVars, pureVars>>

\* _find_device(phrase, devices)
FindDevice ==
    /\ mode = "match"
    /\ pc = "loaded"
    /\ \E p \in MatchPhrases :
        /\ phrase' = p
        /\ outputs' = <<_find_device(p, devices)>>
    /\ pc' = "found"
    /\ UNCHANGED <<mode, impl, ruleVars, turnVars, configVars, devices, resolveVars>>

\* the registry with its devices in the order at
Reordered(registry, at) == [k \in 1..Len(registry) |-> registry[at[k]]]

Orders(n) == {at \in [1..n -> 1..n] : \A i, j \in 1..n : i # j => at[i] # at[j]}

\* _find_device(phrase, other) for a registry other that holds the same
\* devices in another order; outputs keeps other and what the matcher returned
FindInReordered ==
    /\ mode = "match"
    /\ pc = "found"
    /\ \E at \in Orders(Len(devices)) :
        outputs' = <<outputs[1], Reordered(devices, at),
                     _find_device(phrase, Reordered(devices, at))>>
    /\ pc' = "refound"
    /\ UNCHANGED <<mode, impl, ruleVars, turnVars, configVars, devices, resolveVars, phrase>>

NextMatcher == LoadRegistry \/ FindDevice \/ FindInReordered

SpecMatcher == InitMatcher /\ [][NextMatcher]_vars

Found == mode = "match" /\ pc \in {"found", "refound"}
Refound == mode = "match" /\ pc = "refound"

Normalized == _clean_target(phrase)

\* the aliases of a device, as a set
AliasesOf(device) == Range(device.aliases)

ExactAlias(device) == Normalized \in AliasesOf(device)
AliasInPhrase(device) == \E a \in AliasesOf(device) : Contains(a, Normalized)
PhraseInAlias(device) == \E a \in AliasesOf(device) : Contains(Normalized, a)

\* some alias of the device equals, contains or is contained in the phrase
Overlaps(device) == ExactAlias(device) \/ AliasInPhrase(device) \/ PhraseInAlias(device)

Returned(found) == found # None
DevicesOf(registry) == {registry[i] : i \in 1..Len(registry)}

\* C11: the matcher returns none for every phrase whose normalized form is
\* empty, whatever the registry, and whenever no alias of any device equals,
\* contains or is contained in the normalized phrase.
MatcherNoneWithoutOverlap ==
    Found =>
        /\ Normalized = "" => outputs[1] = None
        /\ (\A d \in DevicesOf(devices) : ~Overlaps(d)) => outputs[1] = None

\* C11 witness: an empty phrase, a registry with an empty alias, and none
WitnessEmptyPhraseEmptyAlias ==
    /\ Found
    /\ phrase = "?!"
    /\ \E d \in DevicesOf(devices) : "" \in AliasesOf(d)
    /\ outputs[1] = None

\* C11 witness of the second case: a phrase that overlaps no alias
WitnessNoOverlap ==
    /\ Found
    /\ Normalized # ""
    /\ Len(devices) = 2
    /\ \A d \in DevicesOf(devices) : ~Overlaps(d)
    /\ outputs[1] = None

\* C12: when some device has an alias exactly equal to the normalized phrase,
\* the device the matcher returns has such an alias: no device that matches
\* only by containment wins, whatever the order of the devices and the
\* lengths of the aliases. (The phrase is not empty: see C11.)
ExactOutranksContainment ==
    (Found /\ Normalized # "" /\ \E d \in DevicesOf(devices) : ExactAlias(d))
        => (Returned(outputs[1]) /\ ExactAlias(outputs[1].device))

\* C12 witness: the exact match is declared after a device that matches by
\* containment with a longer alias, and is returned
WitnessExactDeclaredLast ==
    /\ Found
    /\ Len(devices) = 2
    /\ ~ExactAlias(devices[1])
    /\ \E a \in AliasesOf(devices[1]) : Contains(a, Normalized) \/ Contains(Normalized, a)
    /\ ExactAlias(devices[2])
    /\ outputs[1] = [kind |-> "device", device |-> devices[2]]

\* C13: a device matched only by reverse containment (the phrase inside one
\* of its aliases) is never returned when some device has an alias inside the
\* phrase: the tier 50 + len(alias) lies above the tier 10 + len(phrase).
TiersStrictlyOrdered ==
    (Found /\ Returned(outputs[1])
       /\ ~ExactAlias(outputs[1].device) /\ ~AliasInPhrase(outputs[1].device))
        => \A d \in DevicesOf(devices) : ~AliasInPhrase(d)

\* the same for the phrases of at most 40 characters
TiersOrderedUpTo40 == Len(Normalized) <= 40 => TiersStrictlyOrdered

\* the highest score of the aliases of a device
DeviceScore(device) ==
    LET scores == {AliasScore(Normalized, a) : a \in AliasesOf(device)} \cup {NoScore}
    IN  CHOOSE s \in scores : \A t \in scores : t <= s

TopScore(registry) ==
    LET scores == {DeviceScore(d) : d \in DevicesOf(registry)} \cup {NoScore}
    IN  CHOOSE s \in scores : \A t \in scores : t <= s

\* the first device of the registry with the highest score, none without one
FirstAtTop(registry) ==
    LET top == {i \in 1..Len(registry) : DeviceScore(registry[i]) = TopScore(registry)}
    IN  IF Normalized = "" \/ TopScore(registry) = NoScore THEN None
        ELSE [kind |-> "device",
              device |-> registry[CHOOSE i \in top : \A j \in top : i <= j]]

\* C14 as claimed: two registries that hold the same devices in a different
\* order give the same device for every phrase.
OrderIrrelevant == Refound => outputs[3] = outputs[1]

\* C14 as amended: each registry gives the first device, in its own order,
\* among those with the highest score; so the two give the same device
\* whenever a single device has the highest score.
OrderBreaksTiesOnly ==
    Refound =>
        /\ outputs[1] = FirstAtTop(devices)
        /\ outputs[3] = FirstAtTop(outputs[2])
        /\ Cardinality({d \in DevicesOf(devices) : DeviceScore(d) = TopScore(devices)}) = 1
              => outputs[3] = outputs[1]

\* C14 witness: two devices tie and the order decides
WitnessTieBrokenByOrder ==
    /\ Refound
    /\ Returned(outputs[1])
    /\ Returned(outputs[3])
    /\ outputs[3] # outputs[1]

-----------------------------------------------------------------------------
(* The rule-based extractor, its loops taken step by step.                  *)

LeadOptions == {"", "please ", "could you "}
ArticleOptions == {"", "the ", "an "}
TargetOptions == {"living room lights", "Lamp!", "a lamp", "now", "TV now"}

RECURSIVE StacksOf(_)
StacksOf(n) ==
    IF n = 0 THEN {<< >>}
    ELSE LET shorter == StacksOf(n - 1)
         IN  shorter \cup {Append(st, DefaultTrailingFillers[k]) :
                              st \in shorter, k \in 1..Len(DefaultTrailingFillers)}

\* an utterance of the command grammar, by its parts
Grammar ==
    [lead : LeadOptions, rule : Range(DefaultCommands), article : ArticleOptions,
     target : TargetOptions, fillers : StacksOf(MaxFillers)]

RECURSIVE Concat(_, _)
Concat(strs, i) == IF i > Len(strs) THEN "" ELSE strs[i] \o Concat(strs, i + 1)

Compose(p) == p.lead \o p.rule.prefix \o p.article \o p.target \o Concat(p.fillers, 1)

\* configurations with their own phrase lists
FillerConfigA ==
    Dict([leading_phrases |-> StrList(<<"Hey ", "please ">>),
          trailing_fillers |-> StrList(<<" now", " Please">>)])
FillerConfigB ==
    Dict([leading_phrases |-> Str("oops"),
          trailing_fillers |-> List(<<Str(" Me"), Str(" for"), Num(7), Str(""), Str(" ")>>)])
FillerConfigC ==
    Dict([trailing_fillers |-> StrList(<<" on", "n", "p">>)])
FillerConfigD ==
    Dict([leading_phrases |-> StrList(<<"", " ">>),
          trailing_fillers |-> List(<<Str(""), Num(3)>>)])

FillerFiles ==
    {[kind |-> "missing"]}
        \cup {[kind |-> "json", value |-> c] :
                c \in {FillerConfigA, FillerConfigB, FillerConfigC, FillerConfigD}}

FillerUtterances ==
    {"please please stop now for me now", "Hey please open the door for me NOW.",
     "Please can you turn on the lamp now please for me", "turn the lamp on",
     "now now now", " for me", "  ", "turn on", "switch the fan on please now"}

ExtractorStart ==
    /\ mode = "extract"
    /\ pc = "start"
    /\ impl = "legacy"
    /\ command_config = load_command_config(impl, config_file)
    /\ devices = NoDevices
    /\ phrase = NoText
    /\ outputs = << >>
    /\ use_json_format = TRUE
    /\ raw_command = NoText
    /\ raw_target = NoText
    /\ calls = NoCalls
    /\ replies = NoCalls
    /\ intent = None
    /\ result = None
    /\ rule_text = NoText
    /\ changed = FALSE
    /\ TurnIdle

\* utterances of the grammar under the built-in configuration
InitExtractor ==
    /\ config_file = [kind |-> "missing"]
    /\ ExtractorStart
    /\ parts \in Grammar
    /\ user_text = Compose(parts)

\* utterances of any shape under configured phrase lists
InitFillers ==
    /\ config_file \in FillerFiles
    /\ ExtractorStart
    /\ parts = None
    /\ user_text \in FillerUtterances

LeadingPhrases == _load_phrase_list(command_config, "leading_phrases", DefaultLeadingPhrases)
TrailingFillers == _load_phrase_list(command_config, "trailing_fillers", DefaultTrailingFillers)

\* text = user_text.strip(); lowered = text.lower().strip(...); the loop over
\* leading_phrases. phrase keeps lowered as it was before the loop; outputs
\* keeps it as it is after the loop and then after each pass over the
\* trailing fillers, and last what the rules detect
StripLeadingPhrase ==
    /\ mode = "extract"
    /\ pc = "start"
    /\ IF Strip(user_text) = ""
       THEN /\ phrase' = NoText
            /\ rule_text' = NoText
            /\ outputs' = <<NoText, None>>
            /\ changed' = FALSE
            /\ pc' = "extracted"
       ELSE /\ phrase' = StripChars(Lower(Strip(user_text)), StripSet)
            /\ rule_text' = StripLeading(phrase', LeadingPhrases, 1)
            /\ outputs' = <<rule_text'>>
            /\ changed' = TRUE
            /\ pc' = "trailing"
    /\ UNCHANGED <<mode, impl, turnVars, configVars, devices, resolveVars, parts>>

\* one iteration of while changed
TrailingFillerPass ==
    /\ mode = "extract"
    /\ pc = "trailing"
    /\ changed
    /\ LET pass == FillerPassFlag(rule_text, FALSE, TrailingFillers, 1)
       IN  /\ rule_text' = pass.lowered
           /\ changed' = pass.changed
           /\ outputs' = Append(outputs, pass.lowered)
    /\ UNCHANGED <<mode, pc, impl, turnVars, configVars, devices, resolveVars, phrase,
                   parts>>

\* the loop has ended: the rules and the two verb-last grammars
MatchRule ==
    /\ mode = "extract"
    /\ pc = "trailing"
    /\ ~changed
    /\ outputs' = Append(outputs, DetectFrom(rule_text, command_config))
    /\ pc' = "extracted"
    /\ UNCHANGED <<mode, impl, turnVars, configVars, devices, resolveVars, phrase, ruleVars>>

NextExtractor == StripLeadingPhrase \/ TrailingFillerPass \/ MatchRule

SpecExtractor == InitExtractor /\ [][NextExtractor]_vars

SpecFillers == InitFillers /\ [][NextExtractor]_vars

Extracted == mode = "extract" /\ pc = "extracted"
ByGrammar == Extracted /\ parts # None

\* what the grammar says the parts give
DetectedLast == outputs[Len(outputs)]
Expected == Detected(parts.rule.name, _clean_target(parts.article \o parts.target))

\* the target, once normalized, is not empty and neither is nor ends with a
\* trailing filler
PlainTarget ==
    /\ _clean_target(parts.target) # ""
    /\ \A k \in 1..Len(DefaultTrailingFillers) :
          ~EndsWith(" " \o _clean_target(parts.target), DefaultTrailingFillers[k])

\* C15 as claimed: an utterance made of an optional leading phrase, a command
\* prefix, an optional article, a non-empty target and a stack of trailing
\* fillers gives the prefix's command and the normalized target.
GrammarExtracted == ByGrammar => DetectedLast = Expected

\* C15 as amended: the same for a target whose normalized form is not empty
\* and neither is nor ends with a trailing filler.
PlainTargetExtracted == (ByGrammar /\ PlainTarget) => DetectedLast = Expected

\* C15 witness: "please turn off the living room lights now"
WitnessLivingRoomLights ==
    /\ ByGrammar
    /\ user_text = "please turn off the living room lights now"
    /\ DetectedLast = Detected("turn_off", "living room lights")

\* at most one leading phrase was removed from the text
LeadingOnce ==
    (mode = "extract" /\ pc # "start") =>
        \/ outputs[1] = phrase
        \/ \E k \in 1..Len(LeadingPhrases) :
              /\ StartsWith(phrase, LeadingPhrases[k])
              /\ outputs[1] = Strip(DropFirst(phrase, Len(LeadingPhrases[k])))

\* once the loop has ended the text ends with none of the trailing fillers
NoFillerLeft ==
    (mode = "extract" /\ (pc = "extracted" \/ (pc = "trailing" /\ ~changed))) =>
        \A k \in 1..Len(TrailingFillers) : ~EndsWith(rule_text, TrailingFillers[k])

\* the loop ends: every pass that asks for another one has shortened the
\* text, so the passes are at most one more than the characters of the text
PassesBounded ==
    (mode = "extract" /\ pc = "trailing") =>
        /\ \A i \in 1..(Len(outputs) - 2) : Len(outputs[i + 1]) < Len(outputs[i])
        /\ changed => \A i \in 1..(Len(outputs) - 1) : Len(outputs[i + 1]) < Len(outputs[i])
        /\ Len(outputs) - 1 <= Len(outputs[1]) + 1

\* C20: at most one leading filler phrase is removed; the trailing-filler
\* loop ends for every utterance and every configured filler list; and when
\* it has ended the text ends with none of the configured trailing fillers.
FillerLoopEnds == LeadingOnce /\ PassesBounded /\ NoFillerLeft

\* C20 witness: one of two leading phrases removed, three stacked fillers gone
WitnessStackedFillers ==
    /\ Extracted
    /\ parts = None
    /\ user_text = "please please stop now for me now"
    /\ config_file.kind = "missing"
    /\ rule_text = "please stop"

-----------------------------------------------------------------------------
(* Resolution of utterances, by either resolver.                            *)

Utterances ==
    {"turn on the coffee machine", "lock the coffee machine",
     "Please turn off the living room lights now.", "what time is it", "  ",
     "dim the lamp"}

\* a configuration with its own devices and rules
CustomConfig ==
    Dict([devices |->
            List(<< Dict([id |-> Str("lamp"), name |-> Str("Lamp"),
                          aliases |-> StrList(<<"night light">>),
                          supported_commands |-> StrList(<<"turn_on", "dim">>)]),
                    Dict([id |-> Str("coffee"), name |-> Str("coffee machine"),
                          supported_commands |-> StrList(<<"lock">>)]) >>),
          commands |->
            List(<< RawRule(Rule("Dim ", " Dim ")), RawRule(Rule("lock ", "lock")) >>)])

ResolveFiles == {[kind |-> "missing"], [kind |-> "json", value |-> CustomConfig]}

ReplyTexts ==
    {TextTurnOnCoffee, TextLockCoffee, TextTurnOnKitchen, TextOpenThermostat, TextPowerUp,
     TextNotCommand, TextNonBool, TextNullCommand, TextList,
     "Sure: " \o TextTurnOnCoffee \o " Done.",
     TextNotCommand \o " or " \o TextTurnOnCoffee,
     "I cannot tell.", ""}

CanonTexts == {TextCanonTurnOn, TextCanonNull, TextCanonDim, "turn_on"}

ClassifyOutcomes == {Raised(e) : e \in Exceptions} \cup {Replied(t) : t \in ReplyTexts}
CanonOutcomes == {Raised(e) : e \in Exceptions} \cup {Replied(t) : t \in CanonTexts}

Init ==
    /\ mode = "resolve"
    /\ pc = "idle"
    /\ impl \in {"app", "legacy"}
    /\ config_file \in ResolveFiles
    /\ command_config = load_command_config(impl, config_file)
    /\ devices = NoDevices
    /\ phrase = NoText
    /\ outputs = << >>
    /\ ResolverIdle
    /\ RuleIdle
    /\ TurnIdle

\* extract_command_payload runs for a caller of its own or within a turn
Resolving == mode \in {"resolve", "turn"}

\* the blank test without the strip
NonBlankUnstripped(text) == text # ""

\* text = user_text.strip(); if not text: return None
NonBlank(text) == Strip(text) # ""

Goto(p, format_json, command, target, made, it, res) ==
    /\ pc' = p
    /\ use_json_format' = format_json
    /\ raw_command' = command
    /\ raw_target' = target
    /\ calls' = made
    /\ intent' = it
    /\ result' = res

\* extract_command_intent_nlp returns it; extract_command_payload finishes
Finish(it) ==
    Goto("done", use_json_format, NoText, NoText, calls, it,
         PayloadFor(user_text, it, devices))

\* an exception no handler catches leaves extract_command_payload
Propagate(exc) ==
    Goto("done", use_json_format, NoText, NoText, calls, None, Raised(exc))

\* the next iteration of for use_json_format in (True, False), or its end
NextAttempt ==
    IF use_json_format
    THEN Goto("classify", FALSE, NoText, NoText, Append(calls, ClassifyCall(FALSE)),
              None, None)
    ELSE Finish(None)

\* extract_command_payload of the app, up to its first external call
ExtractCommandPayload ==
    /\ Resolving
    /\ impl = "app"
    /\ pc = "idle"
    /\ \E u \in Utterances :
        /\ user_text' = u
        /\ devices' = _load_devices(command_config)
        /\ IF NonBlank(u)
           THEN Goto("classify", TRUE, NoText, NoText, <<ClassifyCall(TRUE)>>, None, None)
           ELSE Goto("done", TRUE, NoText, NoText, calls, None, None)
    /\ UNCHANGED <<mode, impl, ruleVars, turnVars, configVars, replies, pureVars>>

\* the classification call returns or raises
ClassifierReplies ==
    /\ Resolving
    /\ pc = "classify"
    /\ \E o \in ClassifyOutcomes :
        /\ replies' = Append(replies, o)
        /\ IF o.kind = "raise"
           THEN IF Caught(o.exc) THEN Finish(None) ELSE Propagate(o.exc)
           ELSE LET parsed == _extract_json_object(Strip(o.text))
                IN  IF parsed = None THEN NextAttempt
                    ELSE IF Validate(parsed) = None THEN NextAttempt
                    ELSE IF Validate(parsed).kind = "intent" THEN Finish(Validate(parsed))
                    ELSE Goto("canonicalize", use_json_format, Validate(parsed).command,
                              Validate(parsed).target, Append(calls, CanonicalizeCall),
                              None, None)
    /\ UNCHANGED <<mode, impl, ruleVars, turnVars, configVars, devices, user_text, pureVars>>

\* the verb-disambiguation call returns or raises
CanonicalizerReplies ==
    /\ Resolving
    /\ pc = "canonicalize"
    /\ \E o \in CanonOutcomes :
        /\ replies' = Append(replies, o)
        /\ IF o.kind = "raise" /\ ~Caught(o.exc) THEN Propagate(o.exc)
           ELSE LET normalized == IF o.kind = "raise" THEN "" ELSE Canonicalized(o.text)
                IN  IF IsCanonical(normalized)
                    THEN Finish(IntentCommand(normalized, raw_target))
                    ELSE NextAttempt
    /\ UNCHANGED <<mode, impl, ruleVars, turnVars, configVars, devices, user_text, pureVars>>

\* extract_command_payload of voice_to_ollama.py: no step of it is external
LegacyExtract ==
    /\ Resolving
    /\ impl = "legacy"
    /\ pc = "idle"
    /\ \E u \in Utterances :
        /\ user_text' = u
        /\ devices' = IF RuleExtract(u, command_config) = None THEN NoDevices
                      ELSE _load_devices(command_config)
        /\ result' = LegacyExtractCommandPayload(u, command_config)
    /\ pc' = "done"
    /\ UNCHANGED <<mode, impl, ruleVars, turnVars, configVars, use_json_format, raw_command, raw_target, calls,
                   replies, intent, pureVars>>

\* the caller has the result and takes the next utterance; an exception ends
\* the process instead
NextUtterance ==
    /\ mode = "resolve"
    /\ pc = "done"
    /\ result.kind # "raise"
    /\ pc' = "idle"
    /\ devices' = NoDevices
    /\ user_text' = NoText
    /\ use_json_format' = TRUE
    /\ raw_command' = NoText
    /\ raw_target' = NoText
    /\ calls' = NoCalls
    /\ replies' = NoCalls
    /\ intent' = None
    /\ result' = None
    /\ UNCHANGED <<mode, impl, ruleVars, turnVars, configVars, pureVars>>

Next ==
    \/ ExtractCommandPayload
    \/ ClassifierReplies
    \/ CanonicalizerReplies
    \/ LegacyExtract
    \/ NextUtterance

Spec == Init /\ [][Next]_vars

Done == mode = "resolve" /\ pc = "done"
DefaultRegistry == config_file.kind = "missing"

CoffeeUtterance == "turn on the coffee machine"
CoffeePayload == Payload("coffee machine", "turn_on")

\* the devices of the registry that bear the name a payload gives
Named(name) == {i \in 1..Len(devices) : devices[i].name = name}

\* C1: a payload that names a device of the registry carries a command that
\* device supports; "lock the coffee machine" never yields lock for it.
CapabilityRespected ==
    (Done /\ result.kind = "payload" /\ Named(result.device) # {})
        => \E i \in Named(result.device) :
              result.command \in Range(devices[i].supported_commands)

\* the same of the classifier-based resolver alone
CapabilityRespectedByApp == impl = "app" => CapabilityRespected

\* C2: the command of every payload, and of every intent with is_command
\* true, is one of the canonical commands.
CommandsCanonical ==
    /\ (Done /\ result.kind = "payload") => IsCanonical(result.command)
    /\ (mode = "resolve" /\ intent # None /\ intent.is_command)
            => IsCanonical(intent.command)

\* the same of the classifier-based resolver alone
CommandsCanonicalInApp == impl = "app" => CommandsCanonical

FailuresGiveNone ==
    (Done /\ replies # << >> /\ replies[Len(replies)].kind = "raise") => result = None

\* the same for the failures raised as URLError
UrlErrorsGiveNone ==
    (Done /\ replies # << >> /\ replies[Len(replies)] = Raised("URLError"))
        => result = None

ClassifyPlaces == {i \in 1..Len(calls) : calls[i].kind = "classify"}

\* the reply of the first classification call held no parseable JSON object
FirstReplyWithoutObject ==
    /\ replies[1].kind = "content"
    /\ _extract_json_object(Strip(replies[1].text)) = None

\* the reply of the first classification call held an object that gave no
\* intent: it failed validation, or its command could not be canonicalized
FirstReplyNoIntent ==
    /\ replies[1].kind = "content"
    /\ _extract_json_object(Strip(replies[1].text)) # None
    /\ LET v == Validate(_extract_json_object(Strip(replies[1].text)))
       IN  \/ v = None
           \/ /\ v.kind = "canonicalize"
              /\ calls[2].kind = "canonicalize"
              /\ \/ replies[2] = Raised("URLError")
                 \/ replies[2].kind = "content" /\ Canonicalized(replies[2].text) = ""

\* at most two classification calls, the first in JSON mode, the second not
TwoAttempts ==
    /\ Cardinality(ClassifyPlaces) <= 2
    /\ calls # << >> => (calls[1].kind = "classify" /\ calls[1].format_json)
    /\ \A i \in ClassifyPlaces : i > 1 => ~calls[i].format_json

\* C6 as claimed: the second classification call is made only if the first
\* reply yielded no parseable JSON object.
SecondCallOnlyWithoutObject ==
    mode = "resolve" =>
        /\ TwoAttempts
        /\ Cardinality(ClassifyPlaces) = 2 => FirstReplyWithoutObject

\* C6 as amended: the second classification call is made only if the first
\* reply yielded no parseable JSON object or an object that gave no intent.
SecondCallOnlyWithoutIntent ==
    mode = "resolve" =>
        /\ TwoAttempts
        /\ Cardinality(ClassifyPlaces) = 2 => (FirstReplyWithoutObject \/ FirstReplyNoIntent)

\* C6 witness: a second call after a first reply that held an object
WitnessSecondCallAfterObject ==
    /\ mode = "resolve"
    /\ Cardinality(ClassifyPlaces) = 2
    /\ FirstReplyNoIntent
    /\ Len(replies) = Len(calls)

\* the reply at place i answers a classification call and parses to an
\* object whose is_command is the boolean false
RepliedNotCommand(i) ==
    /\ calls[i].kind = "classify"
    /\ replies[i].kind = "content"
    /\ LET parsed == _extract_json_object(Strip(replies[i].text))
       IN  parsed # None /\ Get(parsed, "is_command", Null) = Bool(FALSE)

\* C18: a classifier reply whose is_command is the boolean false ends the
\* classification at once, whatever its command and target: it is the last
\* reply, no further call of either kind was made, the intent is "not a
\* command" and resolution returned none.
NotCommandShortCircuits ==
    mode = "resolve" =>
        \A i \in 1..Len(replies) :
            RepliedNotCommand(i) =>
                /\ i = Len(replies)
                /\ Len(calls) = Len(replies)
                /\ pc = "done"
                /\ intent = IntentNotCommand
                /\ result = None

\* C18 witness: is_command false next to a canonical command and a target, in
\* the first reply
WitnessNotCommandWithCommand ==
    /\ Done
    /\ Len(replies) = 1
    /\ RepliedNotCommand(1)
    /\ replies[1].text = TextNotCommand
    /\ result = None

\* the device the priority of the matches chooses for an intent
ByRawTarget == IF intent.target # "" THEN _find_device(intent.target, devices) ELSE None
ByUtterance == _find_device(user_text, devices)
ChosenMatch == IF ByRawTarget # None THEN ByRawTarget ELSE ByUtterance
ChosenDevice ==
    IF ChosenMatch # None THEN ChosenMatch.device.name ELSE _clean_target(intent.target)

ResolvedCommand == Done /\ impl = "app" /\ intent # None /\ intent.is_command

\* C19: the device of a payload is the device matched by the raw target if
\* there is one, otherwise the device matched by the whole utterance,
\* otherwise the cleaned target itself; a device so chosen that supports the
\* command gives a payload, and in the last case the payload is emitted with
\* the command, whatever the command is.
DeviceChosenByPriority ==
    ResolvedCommand =>
        /\ result.kind = "payload" =>
              (result.device = ChosenDevice /\ result.command = intent.command)
        /\ (ChosenMatch # None
               /\ intent.command \in Range(ChosenMatch.device.supported_commands))
              => result = Payload(ChosenMatch.device.name, intent.command)
        /\ (ChosenMatch = None /\ _clean_target(intent.target) # "")
              => result = Payload(_clean_target(intent.target), intent.command)

\* C19 witness: the raw target matches no device, the utterance does
WitnessDeviceByUtterance ==
    /\ ResolvedCommand
    /\ intent.target # ""
    /\ ByRawTarget = None
    /\ ByUtterance # None
    /\ result = Payload(ByUtterance.device.name, intent.command)

\* C19 witness of the last case: no device matches and the target is emitted
WitnessDeviceVerbatim ==
    /\ ResolvedCommand
    /\ ByRawTarget = None
    /\ ByUtterance = None
    /\ result = Payload("kitchen", "turn_on")

-----------------------------------------------------------------------------
(* One turn of the conversation: chat_turn and maybe_handle_command.        *)

MAX_TURNS_TO_KEEP == 20

SYSTEM_PROMPT ==
    "You are a helpful voice assistant. "
        \o "Be very concise, practical, and ask clarifying questions only when necessary."
        \o "Answer short and keep answers serious. Avoid unnecessary chit-chat. "
        \o "If you don't know, say you don't know."

Message(role, content) == [role |-> role, content |-> content]

IsSystem(m) == m.role = "system"
NotSystem(m) == m.role # "system"

\* seq[:n]
Take(seq, n) == SubSeq(seq, 1, IF n < Len(seq) THEN n ELSE Len(seq))

\* seq[-n:] for n > 0
TakeLast(seq, n) == SubSeq(seq, IF Len(seq) > n THEN Len(seq) - n + 1 ELSE 1, Len(seq))

\* the trim that keeps every system message
TrimHistoryAllSystem(h) ==
    SelectSeq(h, IsSystem) \o TakeLast(SelectSeq(h, NotSystem), 2 * MAX_TURNS_TO_KEEP)

trim_history(h) ==
    LET system_msgs == SelectSeq(h, IsSystem)
        other == SelectSeq(h, NotSystem)
        keep == TakeLast(other, 2 * MAX_TURNS_TO_KEEP)
    IN  Take(system_msgs, 1) \o keep

\* the characters json.dumps writes for one character of a string
JsonChar(c) == IF c = "\"" THEN "\\\"" ELSE IF c = "\\" THEN "\\\\" ELSE c

RECURSIVE JsonString(_)
JsonString(s) == IF s = "" THEN "" ELSE JsonChar(CharAt(s, 1)) \o JsonString(DropFirst(s, 1))

\* json.dumps(payload, ensure_ascii=False)
DumpPayload(payload) ==
    "{\"device\": \"" \o JsonString(payload.device)
        \o "\", \"command\": \"" \o JsonString(payload.command) \o "\"}"

\* the history with the command and its reply, as maybe_handle_command builds it
Answered(h, text, reply) ==
    trim_history(Append(trim_history(Append(h, Message("user", text))),
                        Message("assistant", reply)))

\* the user message appended before the payload is looked at
CommandHistoryAppendFirst(h, text, payload) ==
    IF payload = None THEN Append(h, Message("user", text))
    ELSE Answered(h, text, DumpPayload(payload))

\* the history the caller of maybe_handle_command holds after it returned
CommandHistory(h, text, payload) ==
    IF payload = None THEN h
    ELSE Answered(h, text, DumpPayload(payload))

CommandLine(reply) == [kind |-> "payload", text |-> reply]
AnswerLine(answer) == [kind |-> "answer", text |-> answer]

\* a conversation at its cap of 2 * MAX_TURNS_TO_KEEP messages
FullHistory ==
    <<Message("system", SYSTEM_PROMPT)>>
        \o [i \in 1..(2 * MAX_TURNS_TO_KEEP) |->
                Message(IF i % 2 = 1 THEN "user" ELSE "assistant", ToString(i))]

\* histories main holds when a turn starts
TurnHistories ==
    { <<Message("system", SYSTEM_PROMPT)>>,
      <<Message("system", SYSTEM_PROMPT), Message("user", "hello"),
        Message("assistant", "Hi.")>>,
      FullHistory }

\* message.content of the chat backend's response
ChatContents == {" It is noon.\n", ""}

ChatOutcomes == {Raised(e) : e \in Exceptions} \cup {Replied(t) : t \in ChatContents}

InitTurn ==
    /\ mode = "turn"
    /\ pc = "idle"
    /\ impl \in {"app", "legacy"}
    /\ config_file \in ResolveFiles
    /\ command_config = load_command_config(impl, config_file)
    /\ devices = NoDevices
    /\ phrase = NoText
    /\ outputs = << >>
    /\ ResolverIdle
    /\ RuleIdle
    /\ history \in TurnHistories
    /\ history_file = history
    /\ chat_calls = NoCalls
    /\ chat_replies = NoCalls
    /\ emitted = << >>
    /\ said = NoHistory
    /\ typed = 0

\* maybe_handle_command once extract_command_payload has returned or raised
MaybeHandleCommand ==
    /\ mode = "turn"
    /\ pc = "done"
    /\ IF result.kind = "raise"
       THEN /\ pc' = "turned"
            /\ UNCHANGED <<history, history_file, emitted>>
       ELSE /\ history' = CommandHistory(history, user_text, result)
            /\ IF result = None
               THEN /\ pc' = "handled"
                    /\ UNCHANGED <<history_file, emitted>>
               ELSE /\ pc' = "turned"
                    /\ history_file' = history'
                    /\ emitted' = Append(emitted, CommandLine(DumpPayload(result)))
    /\ UNCHANGED <<mode, impl, ruleVars, configVars, devices, resolveVars, pureVars,
                   chat_calls, chat_replies, said, typed>>

\* chat_turn after maybe_handle_command returned None, up to the chat call
ChatTurn ==
    /\ mode = "turn"
    /\ pc = "handled"
    /\ history' = trim_history(Append(history, Message("user", user_text)))
    /\ chat_calls' = Append(chat_calls, history')
    /\ pc' = "chat"
    /\ UNCHANGED <<mode, impl, ruleVars, configVars, devices, resolveVars, pureVars,
                   history_file, chat_replies, emitted, said, typed>>

\* ask_ollama_chat returns the answer or raises; chat_turn finishes
ChatReplies ==
    /\ mode = "turn"
    /\ pc = "chat"
    /\ \E o \in ChatOutcomes :
        /\ chat_replies' = Append(chat_replies,
                                  IF o = Raised("URLError") THEN Raised("SystemExit") ELSE o)
        /\ IF o.kind = "raise"
           THEN UNCHANGED <<history, history_file, emitted>>
           ELSE /\ history' = trim_history(Append(history, Message("assistant", Strip(o.text))))
                /\ history_file' = history'
                /\ emitted' = Append(emitted, AnswerLine(Strip(o.text)))
    /\ pc' = "turned"
    /\ UNCHANGED <<mode, impl, ruleVars, configVars, devices, resolveVars, pureVars,
                   chat_calls, said, typed>>

NextTurn ==
    \/ ExtractCommandPayload
    \/ ClassifierReplies
    \/ CanonicalizerReplies
    \/ LegacyExtract
    \/ MaybeHandleCommand
    \/ ChatTurn
    \/ ChatReplies

SpecTurn == InitTurn /\ [][NextTurn]_vars

TurnOver == mode = "turn" /\ pc = "turned"

UserMessage == Message("user", user_text)

\* the turn took the command path: the utterance and the serialized payload
\* are the last two messages of the history, nothing was asked of the chat
\* backend, and the serialized payload was printed
CommandPath ==
    /\ result.kind = "payload"
    /\ \E h \in TurnHistories :
        history = trim_history(h \o <<UserMessage, Message("assistant", DumpPayload(result))>>)
    /\ history_file = history
    /\ chat_calls = NoCalls
    /\ emitted = <<CommandLine(DumpPayload(result))>>

\* the turn took the chat path: the chat backend was called once, with the
\* utterance as the last message, and no payload was printed
ChatPath ==
    /\ result = None
    /\ Len(chat_calls) = 1
    /\ chat_calls[1][Len(chat_calls[1])] = UserMessage
    /\ \A i \in 1..Len(emitted) : emitted[i].kind # "payload"

\* C16: every utterance given to chat_turn is handled by exactly one path: with
\* a payload the utterance and the serialized payload are appended to the
\* history and the chat backend is not called; without one the chat backend is
\* called exactly once and no payload is emitted.
OnePathPerUtterance ==
    /\ TurnOver => (CommandPath \/ ChatPath)
    /\ mode = "turn" => ~(chat_calls # NoCalls /\ emitted # << >> /\ emitted[1].kind = "payload")

\* the same for the turns whose resolution returned
OnePathWhenResolutionReturns ==
    (TurnOver /\ result.kind # "raise") => (CommandPath \/ ChatPath)

\* maybe_handle_command has not returned yet
InResolution == mode = "turn" /\ pc \in {"idle", "classify", "canonicalize", "done"}

\* C17: no step of a resolution changes the device configuration, the file it
\* came from or the registry loaded from it, whatever the classifier replies
\* and whether the capability check passes; and a resolution that ends without
\* a payload leaves the history, and its file, as they were.
ResolutionFrame ==
    [][InResolution =>
        /\ command_config' = command_config
        /\ config_file' = config_file
        /\ (devices # NoDevices => devices' = devices)
        /\ ((pc # "done" \/ result.kind # "payload")
                => history' = history /\ history_file' = history_file)]_vars

\* the classifier found a command the device does not support, and the turn
\* went on to the chat backend with the history it started with
WitnessRejectedLeavesHistory ==
    /\ mode = "turn"
    /\ pc = "handled"
    /\ impl = "app"
    /\ DefaultRegistry
    /\ intent = IntentCommand("lock", "the coffee machine")
    /\ result = None
    /\ history = FullHistory
    /\ history_file = FullHistory
    /\ command_config = load_command_config(impl, config_file)

-----------------------------------------------------------------------------
(* JSON extraction applied to replies with text around an object.           *)

\* the texts of JsonDocs that are JSON objects
ObjectTexts == {d.text : d \in {x \in JsonDocs : IsDict(x.value)}}

\* what a reply holds before its object
BeforeOptions == {"", "Sure: ", "Here you go:\n", "{ ", "} ", "Use {x}: "}

\* what a reply holds after its object
AfterOptions == {"", " Done.", " }", " {", " or " \o TextTurnOnCoffee, "\n"}

ReplyBodies == {b \o o \o a : b \in BeforeOptions, o \in ObjectTexts, a \in AfterOptions}

InitJson ==
    /\ mode = "json"
    /\ pc = "start"
    /\ phrase \in ReplyBodies
    /\ outputs = << >>
    /\ impl = "none"
    /\ config_file = NoFile
    /\ command_config = NoConfig
    /\ devices = NoDevices
    /\ ResolverIdle
    /\ RuleIdle
    /\ TurnIdle

ExtractJsonObject ==
    /\ mode = "json"
    /\ pc = "start"
    /\ outputs' = <<_extract_json_object(phrase)>>
    /\ pc' = "parsed"
    /\ UNCHANGED <<mode, impl, ruleVars, turnVars, configVars, devices, resolveVars, phrase>>

NextJson == ExtractJsonObject

SpecJson == InitJson /\ [][NextJson]_vars

\* the place of the brace that closes the one open at depth, from place i on;
\* 0 when there is none
RECURSIVE ClosingFrom(_, _, _)
ClosingFrom(s, i, depth) ==
    IF i > Len(s) THEN 0
    ELSE IF CharAt(s, i) = "{" THEN ClosingFrom(s, i + 1, depth + 1)
    ELSE IF CharAt(s, i) = "}"
         THEN IF depth = 1 THEN i ELSE ClosingFrom(s, i + 1, depth - 1)
    ELSE ClosingFrom(s, i + 1, depth)

\* the opening braces that are closed
BalancedStarts(s) == {i \in Places(s, "{") : ClosingFrom(s, i + 1, 1) # 0}

HasBalanced(s) == BalancedStarts(s) # {}

\* the first balanced brace group of s
FirstBalanced(s) ==
    LET start == Min(BalancedStarts(s))
    IN  SubSeq(s, start, ClosingFrom(s, start + 1, 1))

Parsed == mode = "json" /\ pc = "parsed"
PurelyJson == JsonLoads(Strip(phrase)).ok

\* the reply is not purely JSON and its first balanced group is a JSON object
ObjectFirst ==
    /\ Parsed
    /\ ~PurelyJson
    /\ HasBalanced(phrase)
    /\ JsonLoads(FirstBalanced(phrase)).ok
    /\ IsDict(JsonLoads(FirstBalanced(phrase)).value)

\* C21: from a reply that is not purely JSON but holds a JSON object, with any
\* text before or after it, further braces and a second object included,
\* extraction returns the first balanced object of the reply.
FirstBalancedExtracted ==
    ObjectFirst => outputs[1] = JsonLoads(FirstBalanced(phrase)).value

\* the same for the replies whose first opening and last closing brace are
\* those of the first balanced object
OnlyObjectExtracted ==
    (ObjectFirst /\ BraceMatch(phrase).text = FirstBalanced(phrase))
        => outputs[1] = JsonLoads(FirstBalanced(phrase)).value

-----------------------------------------------------------------------------
(* The aliases of loaded registries.                                        *)

RegistryLoaded == mode = "match" /\ pc # "start"

\* the non-empty aliases of the device that equal, contain or are contained in
\* the normalized phrase
MatchingAliases(device) ==
    {a \in AliasesOf(device) :
        a # "" /\ (a = Normalized \/ Contains(a, Normalized) \/ Contains(Normalized, a))}

\* C22: in every registry the loader returns every alias of every device is a
\* non-empty string, also for a device whose name normalizes to the empty
\* string; hence a device the matcher returns has a non-empty alias that
\* matches the phrase.
AliasesNonEmpty ==
    /\ RegistryLoaded => \A d \in DevicesOf(devices) : "" \notin AliasesOf(d)
    /\ (Found /\ Returned(outputs[1])) => MatchingAliases(outputs[1].device) # {}

\* the same for the registries whose device names do not normalize to the
\* empty string
AliasesNonEmptyOfPlainNames ==
    (\A d \in DevicesOf(devices) : _clean_target(d.name) # "") => AliasesNonEmpty

-----------------------------------------------------------------------------
(* The interactive loop of main and the history it holds.                   *)

RawMessage(role, content) == Dict([role |-> Str(role), content |-> Str(content)])

\* a saved conversation longer than the cap
LongFile ==
    List(<<RawMessage("system", "Be kind.")>>
            \o [i \in 1..(2 * MAX_TURNS_TO_KEEP + 2) |->
                    RawMessage(IF i % 2 = 1 THEN "user" ELSE "assistant", ToString(i))])

\* what HISTORY_FILE holds at startup; role and content are strings in all of them
HistoryFiles ==
    { [kind |-> "missing"],
      [kind |-> "invalid"],
      [kind |-> "json", value |-> Dict([role |-> Str("system"), content |-> Str("Be kind.")])],
      [kind |-> "json", value |-> List(<< >>)],
      [kind |-> "json",
       value |-> List(<<RawMessage("system", "Be kind."), RawMessage("user", "hello"),
                        RawMessage("assistant", "Hi.")>>)],
      [kind |-> "json",
       value |-> List(<<RawMessage("user", "hello"), Str("junk"),
                        Dict([role |-> Str("system")]), RawMessage("assistant", "Hi.")>>)],
      [kind |-> "json",
       value |-> List(<<RawMessage("user", "hello"), RawMessage("system", "Old."),
                        RawMessage("assistant", "Hi."), RawMessage("system", "Older.")>>)],
      [kind |-> "json",
       value |-> List(<<RawMessage("system", "Be kind."), RawMessage("system", "Old."),
                        RawMessage("System", "hello")>>)],
      [kind |-> "json", value |-> LongFile] }

\* isinstance(m, dict) and "role" in m and "content" in m
IsMessage(m) == IsDict(m) /\ {"role", "content"} \subseteq DOMAIN m.fields

RECURSIVE MessagesFrom(_, _)
MessagesFrom(items, i) ==
    IF i > Len(items) THEN << >>
    ELSE IF IsMessage(items[i])
         THEN <<Message(items[i].fields.role.s, items[i].fields.content.s)>>
                  \o MessagesFrom(items, i + 1)
    ELSE MessagesFrom(items, i + 1)

load_history(file) ==
    IF file.kind # "json" THEN << >>
    ELSE IF IsList(file.value) THEN MessagesFrom(file.value.items, 1)
    ELSE << >>

ensure_system(h, system_text) ==
    IF h = << >> \/ h[1].role # "system"
    THEN <<Message("system", system_text)>> \o h
    ELSE h

\* what the user types at the prompt
CommandLines ==
    {"q", " Q ", "/reset", "/clear", "/system Be brief.", "/system ", "/systematic",
     "/addsystem  Say please. ", "t", "T", "r", "x", ""}

\* what the user types or says for a turn
TurnTexts == {"turn on the coffee machine", " what time is it ", "  "}

\* the branch of the loop that takes cmd
Branch(cmd) ==
    IF Lower(cmd) = "q" THEN "q"
    ELSE IF StartsWith(cmd, "/reset") THEN "/reset"
    ELSE IF StartsWith(cmd, "/clear") THEN "/clear"
    ELSE IF StartsWith(cmd, "/system ") THEN "/system"
    ELSE IF StartsWith(cmd, "/addsystem ") THEN "/addsystem"
    ELSE IF Lower(cmd) = "t" THEN "t"
    ELSE IF Lower(cmd) # "r" THEN "other"
    ELSE "r"

\* the commands typed that the loop takes in that branch
Typed(branch) == {Strip(line) : line \in {l \in CommandLines : Branch(Strip(l)) = branch}}

\* intents the classifier-based resolver ends with
LoopIntents ==
    {None, IntentNotCommand, IntentCommand("turn_on", "coffee machine"),
     IntentCommand("lock", "the coffee machine")}

\* what extract_command_payload returns or raises within a turn of the loop
LoopResults(text) ==
    LET registry == _load_devices(command_config)
    IN  {PayloadFor(text, it, registry) : it \in LoopIntents}
            \cup {Raised(e) : e \in {x \in Exceptions : ~Caught(x)}}

InitLoop ==
    /\ mode = "loop"
    /\ pc = "start"
    /\ impl = "app"
    /\ config_file = [kind |-> "missing"]
    /\ command_config = NoConfig
    /\ devices = NoDevices
    /\ phrase = NoText
    /\ outputs = << >>
    /\ ResolverIdle
    /\ RuleIdle
    /\ history = NoHistory
    /\ history_file \in HistoryFiles
    /\ chat_calls = NoCalls
    /\ chat_replies = NoCalls
    /\ emitted = << >>
    /\ said = NoHistory
    /\ typed = 0

LoopFrame ==
    UNCHANGED <<mode, impl, ruleVars, config_file, devices, use_json_format, raw_command,
                raw_target, calls, replies, intent, result, pureVars, chat_calls,
                chat_replies, emitted>>

\* main up to its loop
Startup ==
    /\ mode = "loop"
    /\ pc = "start"
    /\ history' = trim_history(ensure_system(load_history(history_file), SYSTEM_PROMPT))
    /\ command_config' = load_command_config(impl, config_file)
    /\ history_file' = history'
    /\ said' = SelectSeq(load_history(history_file), NotSystem)
    /\ pc' = "prompt"
    /\ UNCHANGED <<user_text, typed>>
    /\ LoopFrame

\* cmd = input(...).strip() is read while fewer than MaxCommands were
AtPrompt == mode = "loop" /\ pc = "prompt" /\ typed < MaxCommands

Quit ==
    /\ AtPrompt
    /\ Typed("q") # {}
    /\ history' = <<ensure_system(history, SYSTEM_PROMPT)[1]>>
    /\ history_file' = history'
    /\ said' = NoHistory
    /\ typed' = typed + 1
    /\ pc' = "exited"
    /\ UNCHANGED <<command_config, user_text>>
    /\ LoopFrame

Reset ==
    /\ AtPrompt
    /\ Typed("/reset") # {}
    /\ history' = <<Message("system", SYSTEM_PROMPT)>>
    /\ history_file' = history'
    /\ said' = NoHistory
    /\ typed' = typed + 1
    /\ UNCHANGED <<pc, command_config, user_text>>
    /\ LoopFrame

Clear ==
    /\ AtPrompt
    /\ Typed("/clear") # {}
    /\ history' = <<ensure_system(history, SYSTEM_PROMPT)[1]>>
    /\ history_file' = history'
    /\ said' = NoHistory
    /\ typed' = typed + 1
    /\ UNCHANGED <<pc, command_config, user_text>>
    /\ LoopFrame

ReplaceSystem ==
    /\ AtPrompt
    /\ \E cmd \in Typed("/system") :
        LET new_sys == Strip(DropFirst(cmd, Len("/system ")))
        IN  IF new_sys # ""
            THEN /\ history' = trim_history(<<Message("system", new_sys)>>
                                                \o SelectSeq(history, NotSystem))
                 /\ history_file' = history'
            ELSE UNCHANGED <<history, history_file>>
    /\ typed' = typed + 1
    /\ UNCHANGED <<pc, command_config, user_text, said>>
    /\ LoopFrame

AddSystem ==
    /\ AtPrompt
    /\ \E cmd \in Typed("/addsystem") :
        LET extra == Strip(DropFirst(cmd, Len("/addsystem ")))
            ensured == ensure_system(history, SYSTEM_PROMPT)
            appended == Message("system",
                                RStrip(ensured[1].content, Whitespace) \o "\n" \o extra)
        IN  IF extra # ""
            THEN /\ history' = trim_history(<<appended>> \o Tail(ensured))
                 /\ history_file' = history'
            ELSE UNCHANGED <<history, history_file>>
    /\ typed' = typed + 1
    /\ UNCHANGED <<pc, command_config, user_text, said>>
    /\ LoopFrame

\* a line the loop does nothing with
Ignore ==
    /\ AtPrompt
    /\ Typed("other") # {}
    /\ typed' = typed + 1
    /\ UNCHANGED <<pc, command_config, user_text, history, history_file, said>>
    /\ LoopFrame

\* a text turn (t) or a voice turn (r): chat_turn up to its return or to the
\* call of the chat backend
TakeTurn ==
    /\ AtPrompt
    /\ Typed("t") \cup Typed("r") # {}
    /\ typed' = typed + 1
    /\ \E text \in TurnTexts :
        IF Strip(text) = ""
        THEN UNCHANGED <<pc, user_text, history, history_file, said>>
        ELSE /\ user_text' = Strip(text)
             /\ \E res \in LoopResults(Strip(text)) :
                 IF res.kind = "raise"
                 THEN /\ pc' = "exited"
                      /\ UNCHANGED <<history, history_file, said>>
                 ELSE IF res = None
                 THEN /\ history' = trim_history(Append(history, Message("user", Strip(text))))
                      /\ said' = Append(said, Message("user", Strip(text)))
                      /\ pc' = "asking"
                      /\ UNCHANGED history_file
                 ELSE /\ history' = CommandHistory(history, Strip(text), res)
                      /\ history_file' = history'
                      /\ said' = said \o <<Message("user", Strip(text)),
                                           Message("assistant", DumpPayload(res))>>
                      /\ UNCHANGED pc
    /\ UNCHANGED command_config
    /\ LoopFrame

\* ask_ollama_chat returns or raises within a turn of the loop
TurnAnswered ==
    /\ mode = "loop"
    /\ pc = "asking"
    /\ \E o \in ChatOutcomes :
        IF o.kind = "raise"
        THEN /\ pc' = "exited"
             /\ UNCHANGED <<history, history_file, said>>
        ELSE /\ history' = trim_history(Append(history, Message("assistant", Strip(o.text))))
             /\ history_file' = history'
             /\ said' = Append(said, Message("assistant", Strip(o.text)))
             /\ pc' = "prompt"
    /\ UNCHANGED <<command_config, user_text, typed>>
    /\ LoopFrame

NextLoop ==
    \/ Startup
    \/ Quit
    \/ Reset
    \/ Clear
    \/ ReplaceSystem
    \/ AddSystem
    \/ Ignore
    \/ TakeTurn
    \/ TurnAnswered

SpecLoop == InitLoop /\ [][NextLoop]_vars

\* the loop waits for a command: startup or the last command is over
Prompting == mode = "loop" /\ pc = "prompt"

\* C23: after startup and after every command of the interactive loop the
\* history holds exactly one system message, at index 0, and at most
\* 2 * MAX_TURNS_TO_KEEP other messages, which are the most recent ones of the
\* conversation in their original order.
HistoryShape ==
    Prompting =>
        /\ Len(history) >= 1
        /\ history[1].role = "system"
        /\ \A i \in 2..Len(history) : history[i].role # "system"
        /\ Len(history) - 1 <= 2 * MAX_TURNS_TO_KEEP
        /\ Tail(history) = TakeLast(said, 2 * MAX_TURNS_TO_KEEP)

\* C23 witness: a conversation loaded over the cap, whose system message was
\* replaced and which a turn answered by the chat backend made longer still
WitnessTrimmedAfterTurn ==
    /\ Prompting
    /\ Len(said) = 2 * MAX_TURNS_TO_KEEP + 4
    /\ Len(history) = 2 * MAX_TURNS_TO_KEEP + 1
    /\ history[1].content = "Be brief."
    /\ history[2].content = "5"
    /\ history[Len(history)].content = "It is noon."

====
